---------------------------- MODULE Spec2Model ----------------------------
(***************************************************************************)
(* The staged payroll-notification workflow of the Slack bot: a CSV file   *)
(* shared in a channel is downloaded and parsed (file_shared), staged in   *)
(* pendingJobs behind a confirmation prompt, and dispatched row by row on  *)
(* confirm_send_action or dropped on cancel_send_action; check-mark        *)
(* reactions on the messages sent are reported to the admin channel.       *)
(*                                                                         *)
(* Every handler is an async function on the single-threaded Node event    *)
(* loop: it runs without interruption from one await to the next, and any  *)
(* other handler may run while it is suspended.  One action of the model   *)
(* is one such uninterrupted segment: the delivery of an event runs the    *)
(* handler up to its first await, and each "...Return" action resumes it   *)
(* with the outcome of the awaited call (a value, or a thrown error) and   *)
(* runs it up to the next await or to its end.                             *)
(***************************************************************************)
EXTENDS Integers, Sequences, FiniteSets, Bags, TLC

\* ------------------------------------------------------------------ bounds
NumFiles == 1           \* artifact (file) identifiers 1..NumFiles
MaxRows == 2            \* data rows of an uploaded file (SpecRows)
MaxTasks == 4           \* events delivered in one behaviour (Spec)
MaxTasksRows == 3       \* events delivered in one behaviour (SpecRows)
MaxTasksLive == 3       \* events delivered in one behaviour (SpecLive)
MaxTasksDirect == 3     \* events delivered in one behaviour (SpecDirect)
MaxInFlight == 2        \* handlers suspended at an await at the same time

Files == 1..NumFiles
Users == {"U1", "U2"}
Reactions == {"white_check_mark", "eyes"}

\* ------------------------------------------------------- CSV_COLS, rows
SLACK_ID == "Slack User"
NAME == "Name"
SALARY == "Salary"
FALTAS == "Faltas"
FERIADOS == "Feriados Trabalhados"
CSV_COLS == {SLACK_ID, NAME, SALARY, FALTAS, FERIADOS}

\* A numeric cell is the text of the cell, one character per element; the
\* other cells are strings, "" being the empty cell.
Digits == {"0", "1", "2", "3", "4", "5", "6", "7", "8", "9"}
DigitValue(c) == CHOOSE n \in 0..9 : <<"0", "1", "2", "3", "4", "5", "6", "7", "8", "9">>[n + 1] = c

\* A JavaScript number: NaN, or the integer n.
NaN == [isNaN |-> TRUE, n |-> 0]
Num(v) == [isNaN |-> FALSE, n |-> v]
isNaN(x) == x.isNaN

RECURSIVE SkipSpaces(_)
SkipSpaces(s) == IF s # <<>> /\ Head(s) = " " THEN SkipSpaces(Tail(s)) ELSE s

RECURSIVE DigitPrefix(_, _, _)
\* the value of the longest prefix of digits of s, NaN when s starts with none
DigitPrefix(s, acc, any) ==
    IF s # <<>> /\ Head(s) \in Digits
    THEN DigitPrefix(Tail(s), 10 * acc + DigitValue(Head(s)), TRUE)
    ELSE IF any THEN Num(acc) ELSE NaN

\* parseInt(raw, 10): leading white space is skipped, one sign is read, then
\* the longest run of digits; anything after it is ignored; no digit: NaN.
parseInt(raw) ==
    LET s == SkipSpaces(raw)
        neg == s # <<>> /\ Head(s) = "-"
        body == IF s # <<>> /\ Head(s) \in {"-", "+"} THEN Tail(s) ELSE s
        v == DigitPrefix(body, 0, FALSE)
    IN  IF isNaN(v) THEN NaN ELSE IF neg THEN Num(0 - v.n) ELSE v

\* row[col] || 0 followed by parseInt(.., 10): an empty cell counts as 0
parseCount(cell) == IF cell = <<>> THEN Num(0) ELSE parseInt(cell)

\* val && val.trim() !== '' for the cell val of column col
BlankTexts == {"", " "}
\* faulty variant: a value of spaces counts as a value
NonBlankUntrimmed(col, val) ==
    IF col \in {FALTAS, FERIADOS} THEN val # <<>> ELSE val # ""
NonBlank(col, val) ==
    IF col \in {FALTAS, FERIADOS} THEN SkipSpaces(val) # <<>> ELSE val \notin BlankTexts

Row(id, name, salary, faltas, feriados) ==
    [c \in CSV_COLS |-> CASE c = SLACK_ID -> id
                          [] c = NAME -> name
                          [] c = SALARY -> salary
                          [] c = FALTAS -> faltas
                          [] c = FERIADOS -> feriados]

\* The cell of a row under a column; a column the file lacks reads undefined,
\* which the code only ever tests for falsiness: the empty cell stands for it.
Cell(row, col) ==
    IF col \in DOMAIN row THEN row[col]
    ELSE IF col \in {FALTAS, FERIADOS} THEN <<>> ELSE ""

\* -------------------------------------------------------------- readCsvFile
\* A file as Slack serves it: its declared type, its header row, its data rows.
CsvFile(type, headers, rows) ==
    [filetype |-> type, headers |-> headers,
     rows |-> [k \in 1..Len(rows) |-> [c \in headers |-> rows[k][c]]]]

RECURSIVE KeepNonBlank(_)
\* the 'data' handler: a row is pushed when some cell is not blank
KeepNonBlank(rows) ==
    IF rows = <<>> THEN <<>>
    ELSE LET row == Head(rows)
             rest == KeepNonBlank(Tail(rows))
         IN  IF \E c \in DOMAIN row : NonBlank(c, row[c]) THEN <<row>> \o rest ELSE rest

\* faulty variant: the two count columns are not expected
missingHeadersOptionalCounts(headers) == {h \in {SLACK_ID, NAME, SALARY} : h \notin headers}
\* the 'headers' handler: the expected headers the header row lacks
missingHeaders(headers) == {h \in CSV_COLS : h \notin headers}

\* faulty variant: the header row is not checked
readCsvFileHeadersUnchecked(file) ==
    [ok |-> TRUE, code |-> "", missing |-> {}, data |-> KeepNonBlank(file.rows)]
\* readCsvFile(filePath) on a readable file: rejects with INVALID_HEADERS and
\* the missing headers (the stream is destroyed before any row is read), or
\* resolves with the rows kept.
readCsvFile(file) ==
    IF missingHeaders(file.headers) # {}
    THEN [ok |-> FALSE, code |-> "INVALID_HEADERS", missing |-> missingHeaders(file.headers), data |-> <<>>]
    ELSE [ok |-> TRUE, code |-> "", missing |-> {}, data |-> KeepNonBlank(file.rows)]

\* ----------------------------------------------------------- generateMessage
\* The two phrases of the message that depend on a count: the singular or the
\* plural text with the count in it, or the text for none.
faltasText(faltas) == [form |-> IF faltas = 1 THEN "singular" ELSE "plural", n |-> faltas]
feriadosText(feriadosTrabalhados) ==
    [form |-> IF feriadosTrabalhados = 1 THEN "singular" ELSE "plural", n |-> feriadosTrabalhados]
NoneText == [form |-> "none", n |-> 0]

\* faulty variant: the holidays phrase is chosen by the absences count
generateMessageCopiedTest(name, salary, faltas, feriadosTrabalhados) ==
    [name |-> name, salary |-> salary,
     faltas |-> IF faltas > 0 THEN faltasText(faltas) ELSE NoneText,
     feriados |-> IF faltas > 0 THEN feriadosText(feriadosTrabalhados) ELSE NoneText]
\* generateMessage(name, salary, faltas, feriadosTrabalhados): the text, as the
\* values it is built from
generateMessage(name, salary, faltas, feriadosTrabalhados) ==
    [name |-> name, salary |-> salary,
     faltas |-> IF faltas > 0 THEN faltasText(faltas) ELSE NoneText,
     feriados |-> IF feriadosTrabalhados > 0 THEN feriadosText(feriadosTrabalhados)
                  ELSE NoneText]

\* ------------------------------------------------------------- the uploads
RowOk == Row("U1", "Ana", "100", <<"1">>, <<>>)
RowNoSalary == Row("U2", "Caio", "", <<>>, <<"2">>)
RowNoId == Row("", "Dora", "300", <<"1">>, <<"1">>)
RowBadCount == Row("U1", "Edu", "200", <<"x">>, <<"0">>)
RowKinds == {RowOk, RowNoSalary, RowNoId, RowBadCount}
\* a count that starts with a digit and goes on with something else
RowDigitThenText == Row("U2", "Fabi", "150", <<"1", "x">>, <<>>)

RECURSIVE SeqsUpTo(_, _)
SeqsUpTo(S, n) ==
    IF n = 0 THEN {<<>>}
    ELSE LET shorter == SeqsUpTo(S, n - 1)
         IN  shorter \cup {Append(q, x) : q \in {r \in shorter : Len(r) = n - 1}, x \in S}

\* What a shared file may be: not a CSV, a CSV lacking a required column, or a
\* CSV with the five columns and up to MaxRows data rows.
NotCsv == CsvFile("png", {}, <<>>)
HeaderMissing == CsvFile("csv", CSV_COLS \ {FALTAS}, <<RowOk>>)
Uploads ==
    {NotCsv, HeaderMissing}
    \cup {CsvFile("csv", CSV_COLS, rows) : rows \in SeqsUpTo(RowKinds, MaxRows)}
    \cup {CsvFile("csv", CSV_COLS, <<RowDigitThenText>>)}
\* The files the reader is called on by itself: every set of columns in the
\* header, rows that are complete, incomplete or blank.
RowBlank == Row("", " ", "", <<>>, <<" ", " ">>)
RowEmpty == Row("", "", "", <<>>, <<>>)
ReaderRows == {RowOk, RowNoSalary, RowBlank, RowEmpty}
ReaderFiles ==
    {CsvFile("csv", headers, rows) :
        headers \in SUBSET CSV_COLS, rows \in SeqsUpTo(ReaderRows, MaxRows)}
\* the counts the renderer is called on by itself
MaxCount == 3
Counts == (0 - 1)..MaxCount

\* the uploads of Spec: one row to send and one to skip
UploadsCore == {NotCsv, HeaderMissing, CsvFile("csv", CSV_COLS, <<RowOk, RowNoSalary>>)}

\* ------------------------------------------------------------------- state
VARIABLES
    upload,          \* file id -> the file Slack holds under that id
    tasks,           \* the handlers suspended at an await: a bag of their locals
    remaining,       \* the events still to be delivered in this behaviour
    jobsMade,        \* the job objects built so far
    runs,            \* the dispatches started so far
    pendingJobs,     \* Map jobId -> job
    disk,            \* the temporary files that exist in uploads/
    processedFiles,  \* Set of file ids
    sentMessages,    \* Map message ts -> {user, name}
    timers,          \* the setTimeout callbacks pending, oldest first
    sends,           \* chat.postMessage calls to recipients, in call order
    sendFailed,      \* the recipient sends that threw
    updates,         \* chat.update calls that succeeded
    prompts,         \* confirmation prompts posted
    errorNotices,    \* the files an error notice was posted for
    modals,          \* views.open calls that succeeded: the view, the job, the
                     \* user and the action whose trigger_id opened it
    notices,         \* admin-channel notices posted: {ts, user} -> how many
    ignored,         \* reactions on messages sent that the handler ignored
    returned,        \* the handlers that returned at a guard or from a catch
                     \* block: kind and file
    outcome          \* the last call of readCsvFile or generateMessage made on
                     \* its own (SpecPure): function, argument, value returned

vars == <<upload, tasks, remaining, jobsMade, runs, pendingJobs, disk, processedFiles, sentMessages, timers,
          sends, sendFailed, updates, prompts, errorNotices, modals, notices, ignored, returned, outcome>>

store == <<pendingJobs, disk, processedFiles, sentMessages, timers>>
outbox == <<sends, sendFailed, updates, prompts, errorNotices, modals, notices, ignored>>

MapPut(m, k, v) == [x \in DOMAIN m \cup {k} |-> IF x = k THEN v ELSE m[x]]
MapDel(m, k) == [x \in DOMAIN m \ {k} |-> m[x]]
EmptyMap == [x \in {} |-> 0]

\* the job object; id is the identity of the object (jobs are numbered as built)
Job(id, data, filePath, userId) ==
    [id |-> id, data |-> data, filePath |-> filePath, userId |-> userId]
NoJob == Job(0, <<>>, 0, "")
NoTs == <<0, 0>>

Task(kind, pc, file, user) ==
    [kind |-> kind, pc |-> pc, file |-> file, user |-> user, job |-> NoJob,
     run |-> 0, i |-> 0, successCount |-> 0, failedUsers |-> <<>>, failedRows |-> <<>>,
     ts |-> NoTs, atDelivery |-> 0]

InFlight == BagToSet(tasks)
CanDeliver == remaining > 0 /\ BagCardinality(tasks) < MaxInFlight
Running(t, kind, pc) == BagIn(t, tasks) /\ t.kind = kind /\ t.pc = pc

NoOutcome == [fn |-> "", arg |-> <<>>, value |-> <<>>]

InitWith(uploads, events) ==
    /\ upload \in [Files -> uploads]
    /\ tasks = EmptyBag
    /\ remaining = events
    /\ jobsMade = 0
    /\ runs = 0
    /\ pendingJobs = EmptyMap
    /\ disk = {}
    /\ processedFiles = {}
    /\ sentMessages = EmptyMap
    /\ timers = <<>>
    /\ sends = <<>>
    /\ sendFailed = {}
    /\ updates = {}
    /\ prompts = {}
    /\ errorNotices = {}
    /\ modals = {}
    /\ notices = EmptyMap
    /\ ignored = {}
    /\ returned = {}
    /\ outcome = NoOutcome

Init == InitWith(UploadsCore, MaxTasks)
\* every kind of row, fewer events
InitRows == InitWith(Uploads, MaxTasksRows)

\* faulty variant: the entry records the name in place of the recipient
trackMessageNameAsUser(ts, data) ==
    /\ sentMessages' = MapPut(sentMessages, ts, [user |-> data.name, name |-> data.name])
    /\ timers' = Append(timers, [kind |-> "message", key |-> ts])

\* faulty variant: no timer is set for the entry
trackMessageNoTimer(ts, data) ==
    /\ sentMessages' = MapPut(sentMessages, ts, data)
    /\ timers' = timers

\* trackMessage / trackFile: the entry, and the timer that will delete it
trackMessage(ts, data) ==
    /\ sentMessages' = MapPut(sentMessages, ts, data)
    /\ timers' = Append(timers, [kind |-> "message", key |-> ts])

trackFile(fileId) ==
    /\ processedFiles' = processedFiles \cup {fileId}
    /\ timers' = Append(timers, [kind |-> "file", key |-> fileId])

\* the setTimeout callbacks; all have the same delay, so they run oldest first
TimerFire ==
    /\ timers # <<>>
    /\ timers' = Tail(timers)
    /\ IF Head(timers).kind = "file"
       THEN /\ processedFiles' = processedFiles \ {Head(timers).key}
            /\ UNCHANGED sentMessages
       ELSE /\ sentMessages' = MapDel(sentMessages, Head(timers).key)
            /\ UNCHANGED processedFiles
    /\ UNCHANGED <<upload, outcome, tasks, remaining, jobsMade, runs, pendingJobs, disk>>
    /\ UNCHANGED <<outbox, returned>>


ids == <<jobsMade, runs>>
handlers == <<tasks, remaining>>

\* ------------------------------------------------- handler: file_shared
\* An event is delivered and its handler runs to its first await (rec), or
\* returns before any await.
Deliver(rec) == tasks' = tasks (+) SetToBag({rec}) /\ remaining' = remaining - 1
DeliverAndReturn == tasks' = tasks /\ remaining' = remaining - 1
\* The suspended handler t resumes and runs to its next await (rec), or to
\* its end.
SetTask(t, rec) == tasks' = (tasks (-) SetToBag({t})) (+) SetToBag({rec}) /\ UNCHANGED remaining
Goto(t, pc) == SetTask(t, [t EXCEPT !.pc = pc])
Finish(t) == tasks' = tasks (-) SetToBag({t}) /\ UNCHANGED remaining
\* an awaited call threw inside the try block: the catch block posts the error
Catch(t) == Goto(t, "errpost")

\* the handler of an event of this kind for file f returns at its guard
Return(kind, f) == returned' = returned \cup {[kind |-> kind, file |-> f]}

\* faulty variant: the guard is missing
alreadyProcessedNeverChecked(f) == FALSE
\* processedFiles.has(fileId): the duplicate-suppression guard
alreadyProcessed(f) == f \in processedFiles

\* The event is delivered: the guard, then client.files.info is awaited.
\* atDelivery remembers the job that was staged for the file at delivery.
FileShared(f, u) ==
    /\ CanDeliver
    /\ LET staged == IF f \in DOMAIN pendingJobs THEN pendingJobs[f].id ELSE 0
       IN  IF alreadyProcessed(f)
           THEN DeliverAndReturn /\ Return("file_shared", f)
           ELSE /\ Deliver([Task("file_shared", "info", f, u) EXCEPT !.atDelivery = staged])
                /\ UNCHANGED returned
    /\ UNCHANGED <<upload, outcome, ids, store, outbox>>

\* faulty variant: the file type is not checked
FilesInfoReturnAnyType(t) ==
    /\ Running(t, "file_shared", "info")
    /\ \E ok \in BOOLEAN :
         IF ~ok THEN Catch(t) ELSE Goto(t, "download")
    /\ UNCHANGED <<upload, outcome, ids, store, outbox, returned>>
\* files.info returned or threw; a CSV goes on to axios.get, a file of
\* another type makes the handler return
FilesInfoReturn(t) ==
    /\ Running(t, "file_shared", "info")
    /\ \E ok \in BOOLEAN :
         IF ~ok THEN Catch(t) /\ UNCHANGED returned
         ELSE IF upload[t.file].filetype # "csv"
         THEN Finish(t) /\ Return("filetype", t.file)
         ELSE Goto(t, "download") /\ UNCHANGED returned
    /\ UNCHANGED <<upload, outcome, ids, store, outbox>>

\* axios.get returned or threw; the write stream opens the temporary file
AxiosGetReturn(t) ==
    /\ Running(t, "file_shared", "download")
    /\ \E ok \in BOOLEAN :
         IF ok
         THEN /\ disk' = disk \cup {t.file}
              /\ Goto(t, "write")
         ELSE /\ Catch(t)
              /\ UNCHANGED disk
    /\ UNCHANGED <<upload, outcome, ids, pendingJobs, processedFiles, sentMessages, timers, outbox, returned>>

\* the writer finished or failed; readCsvFile opens the file (it fails later
\* if the file has been unlinked in the meantime)
WriterReturn(t) ==
    /\ Running(t, "file_shared", "write")
    /\ \E ok \in BOOLEAN :
         IF ~ok THEN Catch(t)
         ELSE Goto(t, IF t.file \in disk THEN "read" ELSE "readfail")
    /\ UNCHANGED <<upload, outcome, ids, store, outbox, returned>>

\* readCsvFile settled: a stream error, INVALID_HEADERS, or the rows; with
\* the rows the job is stored and the confirmation prompt is posted
ReadCsvReturn(t) ==
    /\ BagIn(t, tasks) /\ t.kind = "file_shared"
    /\ t.pc \in {"read", "readfail"}
    /\ \E streamOk \in BOOLEAN :
         LET f == t.file
             res == readCsvFile(upload[f])
             job == Job(jobsMade + 1, res.data, f, t.user)
         IN  IF streamOk /\ t.pc = "read" /\ res.ok
             THEN /\ pendingJobs' = MapPut(pendingJobs, f, job)
                  /\ jobsMade' = jobsMade + 1
                  /\ SetTask(t, [t EXCEPT !.pc = "prompt", !.job = job])
             ELSE /\ Catch(t)
                  /\ UNCHANGED <<pendingJobs, jobsMade>>
    /\ UNCHANGED <<upload, outcome, runs, disk, processedFiles, sentMessages, timers, outbox, returned>>

\* chat.postMessage of the prompt returned or threw
PromptReturn(t) ==
    /\ Running(t, "file_shared", "prompt")
    /\ \E ok \in BOOLEAN :
         IF ok
         THEN /\ prompts' = prompts \cup {[job |-> t.job.id, atDelivery |-> t.atDelivery]}
              /\ Finish(t)
         ELSE /\ Catch(t)
              /\ UNCHANGED prompts
    /\ UNCHANGED <<upload, outcome, ids, store, sends, sendFailed, updates, errorNotices, modals, notices, ignored, returned>>

\* the catch block: the error notice returned (then the file is unlinked) or
\* threw (the handler ends there)
ErrorPostReturn(t) ==
    /\ Running(t, "file_shared", "errpost")
    /\ \E ok \in BOOLEAN :
         IF ok
         THEN /\ errorNotices' = errorNotices \cup {t.file}
              /\ disk' = disk \ {t.file}
         ELSE UNCHANGED <<errorNotices, disk>>
    /\ Finish(t)
    /\ UNCHANGED <<upload, outcome, ids, pendingJobs, processedFiles, sentMessages, timers>>
    /\ UNCHANGED <<sends, sendFailed, updates, prompts, modals, notices, ignored, returned>>

\* ------------------------------------------- handler: confirm_send_action
\* faulty variant: the user guard is missing
notOwnerNeverChecked(user, job) == FALSE
\* faulty variant: the user guard is inverted
notOwnerInverted(user, job) == user = job.userId
\* clickingUser !== job.userId
notOwner(user, job) == user # job.userId

\* faulty variant: the amount is not checked
rowIncompleteSalaryUnchecked(row) == Cell(row, SLACK_ID) = "" \/ Cell(row, NAME) = ""
\* !slackUserId || !salary || !agentName
rowIncomplete(row) ==
    Cell(row, SLACK_ID) = "" \/ Cell(row, SALARY) = "" \/ Cell(row, NAME) = ""

\* isNaN(faltas) || isNaN(feriadosTrabalhados)
rowNotNumeric(row) ==
    isNaN(parseCount(Cell(row, FALTAS))) \/ isNaN(parseCount(Cell(row, FERIADOS)))

UnknownName == "Nome Desconhecido (ID ou Salario ausente)"
NotNumericSuffix == " (dados numericos invalidos)"

RECURSIVE RunLoopUnshifts(_, _, _, _)
\* faulty variant: failed rows are put at the front of the list
RunLoopUnshifts(data, i, failedUsers, failedRows) ==
    IF i > Len(data)
    THEN [send |-> FALSE, i |-> i, failedUsers |-> failedUsers, failedRows |-> failedRows]
    ELSE LET row == data[i]
             agentName == Cell(row, NAME)
         IN  IF rowIncomplete(row)
             THEN RunLoopUnshifts(data, i + 1,
                          <<IF agentName # "" THEN agentName ELSE UnknownName>> \o failedUsers,
                          <<i>> \o failedRows)
             ELSE IF rowNotNumeric(row)
             THEN RunLoopUnshifts(data, i + 1,
                          <<agentName \o NotNumericSuffix>> \o failedUsers,
                          <<i>> \o failedRows)
             ELSE [send |-> TRUE, i |-> i, failedUsers |-> failedUsers, failedRows |-> failedRows]

RECURSIVE RunLoopSkipsUnlisted(_, _, _, _)
\* faulty variant: a row with invalid counts is skipped without being listed
RunLoopSkipsUnlisted(data, i, failedUsers, failedRows) ==
    IF i > Len(data)
    THEN [send |-> FALSE, i |-> i, failedUsers |-> failedUsers, failedRows |-> failedRows]
    ELSE LET row == data[i]
             agentName == Cell(row, NAME)
         IN  IF rowIncomplete(row)
             THEN RunLoopSkipsUnlisted(data, i + 1,
                          Append(failedUsers, IF agentName # "" THEN agentName ELSE UnknownName),
                          Append(failedRows, i))
             ELSE IF rowNotNumeric(row)
             THEN RunLoopSkipsUnlisted(data, i + 1, failedUsers, failedRows)
             ELSE [send |-> TRUE, i |-> i, failedUsers |-> failedUsers, failedRows |-> failedRows]

RECURSIVE RunLoop(_, _, _, _)
\* The for loop from row i up to its next await: rows that fail a check are
\* pushed on failedUsers and skipped; it stops at the first row to send
\* (send = TRUE, i = that row) or after the last row (send = FALSE).
\* failedRows lists, beside failedUsers, the rows the entries stand for.
RunLoop(data, i, failedUsers, failedRows) ==
    IF i > Len(data)
    THEN [send |-> FALSE, i |-> i, failedUsers |-> failedUsers, failedRows |-> failedRows]
    ELSE LET row == data[i]
             agentName == Cell(row, NAME)
         IN  IF rowIncomplete(row)
             THEN RunLoop(data, i + 1,
                          Append(failedUsers, IF agentName # "" THEN agentName ELSE UnknownName),
                          Append(failedRows, i))
             ELSE IF rowNotNumeric(row)
             THEN RunLoop(data, i + 1,
                          Append(failedUsers, agentName \o NotNumericSuffix),
                          Append(failedRows, i))
             ELSE [send |-> TRUE, i |-> i, failedUsers |-> failedUsers, failedRows |-> failedRows]

\* Task t, with its locals as in rec, goes on with the loop at row i: either
\* chat.postMessage to the recipient of the next valid row is awaited, or
\* the loop is over and chat.update with the report is awaited.
Dispatch(t, rec, i) ==
    LET r == RunLoop(rec.job.data, i, rec.failedUsers, rec.failedRows)
        next == [rec EXCEPT !.i = r.i, !.failedUsers = r.failedUsers,
                            !.failedRows = r.failedRows,
                            !.pc = IF r.send THEN "send" ELSE "report"]
    IN  /\ SetTask(t, next)
        /\ sends' = IF r.send
                    THEN Append(sends, [run |-> rec.run, job |-> rec.job.id,
                                        file |-> rec.job.filePath, row |-> r.i])
                    ELSE sends

\* faulty variant: the report counts the rows visited, not the sends that
\* succeeded
UpdateCountsVisited(kind, rec) ==
    [kind |-> kind, job |-> rec.job.id, file |-> rec.job.filePath, run |-> rec.run,
     successCount |-> IF kind = "report" THEN rec.i - 1 ELSE 0,
     total |-> IF kind = "report" THEN Len(rec.job.data) ELSE 0,
     failedUsers |-> IF kind = "report" THEN rec.failedUsers ELSE <<>>,
     failedRows |-> IF kind = "report" THEN rec.failedRows ELSE <<>>]
\* a chat.update that went through, with what it shows
Update(kind, rec) ==
    [kind |-> kind, job |-> rec.job.id, file |-> rec.job.filePath, run |-> rec.run,
     successCount |-> IF kind = "report" THEN rec.successCount ELSE 0,
     total |-> IF kind = "report" THEN Len(rec.job.data) ELSE 0,
     failedUsers |-> IF kind = "report" THEN rec.failedUsers ELSE <<>>,
     failedRows |-> IF kind = "report" THEN rec.failedRows ELSE <<>>]

\* pendingJobs.delete(jobId) and the unlink of job.filePath
Cleanup(t) ==
    /\ pendingJobs' = MapDel(pendingJobs, t.file)
    /\ disk' = disk \ {t.job.filePath}

\* the button is clicked: ack() is awaited
ConfirmSend(f, u) ==
    /\ CanDeliver
    /\ Deliver(Task("confirm", "ack", f, u))
    /\ UNCHANGED <<upload, outcome, ids, store, outbox, returned>>

\* faulty variant: another user's click returns without the modal
ConfirmAckReturnSilentDenial(t) ==
    /\ Running(t, "confirm", "ack")
    /\ LET f == t.file
       IN  IF f \notin DOMAIN pendingJobs
           THEN Finish(t) /\ Return("confirm", f) /\ UNCHANGED runs
           ELSE IF notOwner(t.user, pendingJobs[f])
           THEN Finish(t) /\ UNCHANGED <<runs, returned>>
           ELSE /\ SetTask(t, [t EXCEPT !.job = pendingJobs[f], !.pc = "progress",
                                               !.run = runs + 1])
                /\ runs' = runs + 1
                /\ UNCHANGED returned
    /\ UNCHANGED <<upload, outcome, jobsMade, store, outbox>>
\* After ack: no job, return; another user's click, the access-denied modal;
\* the owner's click, the "Enviando..." update.
ConfirmAckReturn(t) ==
    /\ Running(t, "confirm", "ack")
    /\ LET f == t.file
       IN  IF f \notin DOMAIN pendingJobs
           THEN Finish(t) /\ Return("confirm", f) /\ UNCHANGED runs
           ELSE IF notOwner(t.user, pendingJobs[f])
           THEN /\ SetTask(t, [t EXCEPT !.job = pendingJobs[f], !.pc = "denied"])
                /\ UNCHANGED <<runs, returned>>
           ELSE /\ SetTask(t, [t EXCEPT !.job = pendingJobs[f], !.pc = "progress",
                                               !.run = runs + 1])
                /\ runs' = runs + 1
                /\ UNCHANGED returned
    /\ UNCHANGED <<upload, outcome, jobsMade, store, outbox>>

\* views.open of the access-denied modal returned or threw (confirm, cancel)
DeniedReturn(t) ==
    /\ BagIn(t, tasks) /\ t.kind \in {"confirm", "cancel"}
    /\ t.pc = "denied"
    /\ \E ok \in BOOLEAN :
         modals' = IF ok
                   THEN modals \cup {[kind |-> "denied", job |-> t.job.id,
                                      user |-> t.user, trigger |-> t.kind]}
                   ELSE modals
    /\ Finish(t)
    /\ UNCHANGED <<upload, outcome, ids, store, sends, sendFailed, updates, prompts, errorNotices, notices, ignored, returned>>

\* faulty variant: the loop starts whether the update returned or threw
ProgressReturnIgnoresFailure(t) ==
    /\ Running(t, "confirm", "progress")
    /\ \E ok \in BOOLEAN :
         /\ updates' = IF ok THEN updates \cup {Update("progress", t)} ELSE updates
         /\ Dispatch(t, t, 1)
    /\ UNCHANGED <<upload, outcome, ids, store, sendFailed, prompts, errorNotices, modals, notices, ignored, returned>>
\* the "Enviando..." update returned (the loop starts) or threw (catch)
ProgressReturn(t) ==
    /\ Running(t, "confirm", "progress")
    /\ \E ok \in BOOLEAN :
         IF ok
         THEN /\ updates' = updates \cup {Update("progress", t)}
              /\ Dispatch(t, t, 1)
         ELSE /\ Goto(t, "critical")
              /\ UNCHANGED <<updates, sends>>
    /\ UNCHANGED <<upload, outcome, ids, store, sendFailed, prompts, errorNotices, modals, notices, ignored, returned>>

\* faulty variant: a send that throws is tried again
SendReturnRetries(t) ==
    /\ Running(t, "confirm", "send")
    /\ LET rec == t
           row == rec.job.data[rec.i]
       IN  \E ok \in BOOLEAN :
             IF ok
             THEN /\ trackMessage(<<rec.run, rec.i>>,
                                  [user |-> Cell(row, SLACK_ID), name |-> Cell(row, NAME)])
                  /\ Dispatch(t, [rec EXCEPT !.successCount = @ + 1], rec.i + 1)
                  /\ UNCHANGED sendFailed
             ELSE /\ sendFailed' = sendFailed \cup {<<rec.run, rec.i>>}
                  /\ Dispatch(t, rec, rec.i)
                  /\ UNCHANGED <<sentMessages, timers>>
    /\ UNCHANGED <<upload, outcome, ids, pendingJobs, disk, processedFiles>>
    /\ UNCHANGED <<updates, prompts, errorNotices, modals, notices, ignored, returned>>

\* faulty variant: a send that throws ends the loop (the name is pushed and
\* the report follows)
SendReturnLoopEndsOnFailure(t) ==
    /\ Running(t, "confirm", "send")
    /\ LET rec == t
           row == rec.job.data[rec.i]
       IN  \E ok \in BOOLEAN :
             IF ok
             THEN /\ trackMessage(<<rec.run, rec.i>>,
                                  [user |-> Cell(row, SLACK_ID), name |-> Cell(row, NAME)])
                  /\ Dispatch(t, [rec EXCEPT !.successCount = @ + 1], rec.i + 1)
                  /\ UNCHANGED sendFailed
             ELSE /\ sendFailed' = sendFailed \cup {<<rec.run, rec.i>>}
                  /\ SetTask(t, [rec EXCEPT !.failedUsers = Append(@, Cell(row, NAME)),
                                            !.failedRows = Append(@, rec.i),
                                            !.pc = "report"])
                  /\ UNCHANGED <<sentMessages, timers, sends>>
    /\ UNCHANGED <<upload, outcome, ids, pendingJobs, disk, processedFiles>>
    /\ UNCHANGED <<updates, prompts, errorNotices, modals, notices, ignored, returned>>

\* chat.postMessage to the recipient of row i returned (the message is
\* tracked under its ts and counted) or threw (the name is pushed on
\* failedUsers); the loop goes on with row i + 1
SendReturn(t) ==
    /\ Running(t, "confirm", "send")
    /\ LET rec == t
           row == rec.job.data[rec.i]
       IN  \E ok \in BOOLEAN :
             IF ok
             THEN /\ trackMessage(<<rec.run, rec.i>>,
                                  [user |-> Cell(row, SLACK_ID), name |-> Cell(row, NAME)])
                  /\ Dispatch(t, [rec EXCEPT !.successCount = @ + 1], rec.i + 1)
                  /\ UNCHANGED sendFailed
             ELSE /\ sendFailed' = sendFailed \cup {<<rec.run, rec.i>>}
                  /\ Dispatch(t, [rec EXCEPT !.failedUsers = Append(@, Cell(row, NAME)),
                                              !.failedRows = Append(@, rec.i)],
                              rec.i + 1)
                  /\ UNCHANGED <<sentMessages, timers>>
    /\ UNCHANGED <<upload, outcome, ids, pendingJobs, disk, processedFiles>>
    /\ UNCHANGED <<updates, prompts, errorNotices, modals, notices, ignored, returned>>

\* faulty variant: the file is marked before the report update is awaited
ReportReturnMarksOnFailure(t) ==
    /\ Running(t, "confirm", "report")
    /\ \E ok \in BOOLEAN :
         IF ok
         THEN /\ updates' = updates \cup {Update("report", t)}
              /\ trackFile(t.file)
              /\ Cleanup(t)
              /\ Finish(t)
         ELSE /\ Goto(t, "critical")
              /\ trackFile(t.file)
              /\ UNCHANGED <<updates, pendingJobs, disk>>
    /\ UNCHANGED <<upload, outcome, ids, sentMessages>>
    /\ UNCHANGED <<sends, sendFailed, prompts, errorNotices, modals, notices, ignored, returned>>
\* the report update returned (trackFile, then finally) or threw (catch)
ReportReturn(t) ==
    /\ Running(t, "confirm", "report")
    /\ \E ok \in BOOLEAN :
         IF ok
         THEN /\ updates' = updates \cup {Update("report", t)}
              /\ trackFile(t.file)
              /\ Cleanup(t)
              /\ Finish(t)
         ELSE /\ Goto(t, "critical")
              /\ UNCHANGED <<updates, pendingJobs, disk, processedFiles, timers>>
    /\ UNCHANGED <<upload, outcome, ids, sentMessages>>
    /\ UNCHANGED <<sends, sendFailed, prompts, errorNotices, modals, notices, ignored, returned>>

\* the catch block's update returned or threw; either way finally runs
CriticalReturn(t) ==
    /\ Running(t, "confirm", "critical")
    /\ \E ok \in BOOLEAN :
         updates' = IF ok THEN updates \cup {Update("critical", t)} ELSE updates
    /\ Cleanup(t)
    /\ Finish(t)
    /\ UNCHANGED <<upload, outcome, ids, processedFiles, sentMessages, timers>>
    /\ UNCHANGED <<sends, sendFailed, prompts, errorNotices, modals, notices, ignored, returned>>

\* -------------------------------------------- handler: cancel_send_action
\* the jobs a confirm handler is dispatching
Dispatching == {t.job.id : t \in {x \in InFlight : x.kind = "confirm" /\ x.run # 0}}

\* the button is clicked: ack() is awaited.  atDelivery remembers the job of
\* the file if it was being dispatched at delivery.
CancelSend(f, u) ==
    /\ CanDeliver
    /\ LET busy == IF f \in DOMAIN pendingJobs /\ pendingJobs[f].id \in Dispatching
                   THEN pendingJobs[f].id ELSE 0
       IN  Deliver([Task("cancel", "ack", f, u) EXCEPT !.atDelivery = busy])
    /\ UNCHANGED <<upload, outcome, ids, store, outbox, returned>>

\* faulty variant: the job-exists guard is missing, the update is made anyway
CancelAckReturnJobUnchecked(t) ==
    /\ Running(t, "cancel", "ack")
    /\ LET f == t.file
       IN  IF f \notin DOMAIN pendingJobs
           THEN Goto(t, "cancelling")
           ELSE SetTask(t, [t EXCEPT
                    !.job = pendingJobs[f],
                    !.pc = IF notOwner(t.user, pendingJobs[f])
                           THEN "denied" ELSE "cancelling"])
    /\ UNCHANGED <<upload, outcome, ids, store, outbox, returned>>

\* After ack: no job, return; another user's click, the access-denied modal;
\* the owner's click, the "Operacao cancelada" update.
CancelAckReturn(t) ==
    /\ Running(t, "cancel", "ack")
    /\ LET f == t.file
       IN  IF f \notin DOMAIN pendingJobs
           THEN Finish(t) /\ Return("cancel", f)
           ELSE /\ SetTask(t, [t EXCEPT
                       !.job = pendingJobs[f],
                       !.pc = IF notOwner(t.user, pendingJobs[f])
                              THEN "denied" ELSE "cancelling"])
                /\ UNCHANGED returned
    /\ UNCHANGED <<upload, outcome, ids, store, outbox>>

\* faulty variant: the cancelled file is marked processed
CancelUpdateReturnMarks(t) ==
    /\ Running(t, "cancel", "cancelling")
    /\ \E ok \in BOOLEAN :
         IF ok
         THEN /\ updates' = updates \cup {Update("cancelled", t)}
              /\ Cleanup(t)
              /\ trackFile(t.file)
         ELSE UNCHANGED <<updates, pendingJobs, disk, processedFiles, timers>>
    /\ Finish(t)
    /\ UNCHANGED <<upload, outcome, ids, sentMessages>>
    /\ UNCHANGED <<sends, sendFailed, prompts, errorNotices, modals, notices, ignored, returned>>
\* the cancellation update returned (the job and the file are deleted) or
\* threw (the handler ends there)
CancelUpdateReturn(t) ==
    /\ Running(t, "cancel", "cancelling")
    /\ \E ok \in BOOLEAN :
         IF ok
         THEN /\ updates' = updates \cup {Update("cancelled", t)}
              /\ Cleanup(t)
         ELSE UNCHANGED <<updates, pendingJobs, disk>>
    /\ Finish(t)
    /\ UNCHANGED <<upload, outcome, ids, processedFiles, sentMessages, timers>>
    /\ UNCHANGED <<sends, sendFailed, prompts, errorNotices, modals, notices, ignored, returned>>

\* ------------------------------------------- handler: preview_data_action
\* the button is clicked: ack() is awaited
PreviewData(f, u) ==
    /\ CanDeliver
    /\ Deliver(Task("preview", "ack", f, u))
    /\ UNCHANGED <<upload, outcome, ids, store, outbox, returned>>

\* faulty variant: the preview is opened for the originating user only
PreviewAckReturnOwnerOnly(t) ==
    /\ Running(t, "preview", "ack")
    /\ LET f == t.file
       IN  IF f \notin DOMAIN pendingJobs
           THEN Finish(t) /\ Return("preview", f)
           ELSE IF notOwner(t.user, pendingJobs[f])
           THEN Finish(t) /\ UNCHANGED returned
           ELSE /\ SetTask(t, [t EXCEPT !.job = pendingJobs[f], !.pc = "open"])
                /\ UNCHANGED returned
    /\ UNCHANGED <<upload, outcome, ids, store, outbox>>
\* After ack: no job, return; otherwise views.open with the preview of the
\* job's rows is awaited, whoever the clicking user is.
PreviewAckReturn(t) ==
    /\ Running(t, "preview", "ack")
    /\ LET f == t.file
       IN  IF f \notin DOMAIN pendingJobs
           THEN Finish(t) /\ Return("preview", f)
           ELSE /\ SetTask(t, [t EXCEPT !.job = pendingJobs[f], !.pc = "open"])
                /\ UNCHANGED returned
    /\ UNCHANGED <<upload, outcome, ids, store, outbox>>

\* views.open of the preview returned or threw (caught and logged)
PreviewOpenReturn(t) ==
    /\ Running(t, "preview", "open")
    /\ \E ok \in BOOLEAN :
         modals' = IF ok
                   THEN modals \cup {[kind |-> "preview", job |-> t.job.id,
                                      user |-> t.user, trigger |-> t.kind]}
                   ELSE modals
    /\ Finish(t)
    /\ UNCHANGED <<upload, outcome, ids, store, sends, sendFailed, updates, prompts, errorNotices, notices, ignored, returned>>

\* ------------------------------------------------ handler: reaction_added
\* faulty variant: the reacting user is not compared with the recipient
validAcknowledgmentAnyUser(reaction, ts, user) ==
    reaction = "white_check_mark" /\ ts \in DOMAIN sentMessages
\* reaction === 'white_check_mark' && messageInfo && messageInfo.user === user
validAcknowledgment(reaction, ts, user) ==
    /\ reaction = "white_check_mark"
    /\ ts \in DOMAIN sentMessages
    /\ sentMessages[ts].user = user

\* the message identifiers Slack has returned so far: run and row of the send
SendsInFlight == {<<t.run, t.i>> : t \in {x \in InFlight : x.pc = "send"}}
IssuedTs == {<<sends[k].run, sends[k].row>> : k \in 1..Len(sends)} \ (sendFailed \cup SendsInFlight)

\* The reaction is delivered: a valid acknowledgment awaits the notice to the
\* admin channel, anything else ends the handler.
ReactionAdded(reaction, ts, user) ==
    /\ CanDeliver
    /\ IF validAcknowledgment(reaction, ts, user)
       THEN /\ Deliver([Task("reaction", "notice", 0, user) EXCEPT !.ts = ts])
            /\ UNCHANGED ignored
       ELSE /\ DeliverAndReturn
            /\ ignored' = IF ts # NoTs
                          THEN ignored \cup {[reaction |-> reaction, ts |-> ts, user |-> user]}
                          ELSE ignored
    /\ UNCHANGED <<upload, outcome, ids, store, returned>>
    /\ UNCHANGED <<sends, sendFailed, updates, prompts, errorNotices, modals, notices>>

Count(bag, k) == IF k \in DOMAIN bag THEN bag[k] ELSE 0

\* faulty variant: the entry is deleted before the notice is awaited
NoticeReturnDeletesFirst(t) ==
    /\ Running(t, "reaction", "notice")
    /\ \E ok \in BOOLEAN :
         IF ok
         THEN /\ LET k == [ts |-> t.ts, user |-> t.user]
                 IN  notices' = MapPut(notices, k, Count(notices, k) + 1)
              /\ UNCHANGED returned
         ELSE /\ UNCHANGED notices
              /\ Return("notice", 0)
    /\ sentMessages' = MapDel(sentMessages, t.ts)
    /\ Finish(t)
    /\ UNCHANGED <<upload, outcome, ids, pendingJobs, disk, processedFiles, timers>>
    /\ UNCHANGED <<sends, sendFailed, updates, prompts, errorNotices, modals, ignored>>
\* the notice returned (the entry is deleted) or threw (caught and logged:
\* the handler returns from its catch block)
NoticeReturn(t) ==
    /\ Running(t, "reaction", "notice")
    /\ \E ok \in BOOLEAN :
         IF ok
         THEN /\ LET k == [ts |-> t.ts, user |-> t.user]
                 IN  notices' = MapPut(notices, k, Count(notices, k) + 1)
              /\ sentMessages' = MapDel(sentMessages, t.ts)
              /\ UNCHANGED returned
         ELSE /\ UNCHANGED <<notices, sentMessages>>
              /\ Return("notice", 0)
    /\ Finish(t)
    /\ UNCHANGED <<upload, outcome, ids, pendingJobs, disk, processedFiles, timers>>
    /\ UNCHANGED <<sends, sendFailed, updates, prompts, errorNotices, modals, ignored>>

\* ------------------------------------------------------------ the program
Next ==
    \/ \E f \in Files, u \in Users : FileShared(f, u)
    \/ \E f \in Files, u \in Users : ConfirmSend(f, u)
    \/ \E f \in Files, u \in Users : CancelSend(f, u)
    \/ \E f \in Files, u \in Users : PreviewData(f, u)
    \/ \E r \in Reactions, ts \in IssuedTs \cup {NoTs}, u \in Users : ReactionAdded(r, ts, u)
    \/ \E t \in InFlight : FilesInfoReturn(t)
    \/ \E t \in InFlight : AxiosGetReturn(t)
    \/ \E t \in InFlight : WriterReturn(t)
    \/ \E t \in InFlight : ReadCsvReturn(t)
    \/ \E t \in InFlight : PromptReturn(t)
    \/ \E t \in InFlight : ErrorPostReturn(t)
    \/ \E t \in InFlight : ConfirmAckReturn(t)
    \/ \E t \in InFlight : DeniedReturn(t)
    \/ \E t \in InFlight : ProgressReturn(t)
    \/ \E t \in InFlight : SendReturn(t)
    \/ \E t \in InFlight : ReportReturn(t)
    \/ \E t \in InFlight : CriticalReturn(t)
    \/ \E t \in InFlight : CancelAckReturn(t)
    \/ \E t \in InFlight : CancelUpdateReturn(t)
    \/ \E t \in InFlight : PreviewAckReturn(t)
    \/ \E t \in InFlight : PreviewOpenReturn(t)
    \/ \E t \in InFlight : NoticeReturn(t)
    \/ TimerFire

Spec == Init /\ [][Next]_vars
SpecRows == InitRows /\ [][Next]_vars

\* readCsvFile and generateMessage called on their own
ReadFile(file) ==
    /\ outcome' = [fn |-> "readCsvFile", arg |-> file, value |-> readCsvFile(file)]
    /\ UNCHANGED <<upload, handlers, ids, store, outbox, returned>>

Render(name, salary, faltas, feriadosTrabalhados) ==
    /\ outcome' = [fn |-> "generateMessage",
                   arg |-> <<name, salary, faltas, feriadosTrabalhados>>,
                   value |-> generateMessage(name, salary, faltas, feriadosTrabalhados)]
    /\ UNCHANGED <<upload, handlers, ids, store, outbox, returned>>

InitPure == InitWith({NotCsv}, 0)
NextPure ==
    \/ \E file \in ReaderFiles : ReadFile(file)
    \/ \E faltas \in Counts, feriadosTrabalhados \in Counts :
          Render("Ana", "100", faltas, feriadosTrabalhados)
SpecPure == InitPure /\ [][NextPure]_vars

\* The event loop runs a setTimeout callback once its delay has elapsed: a
\* pending timer does not wait for ever.
InitLive == InitWith(UploadsCore, MaxTasksLive)
SpecLive == InitLive /\ [][Next]_vars /\ WF_vars(TimerFire)

\* ------------------------------------------- app.js: the direct pipeline
\* In app.js a file_shared event is processed at once, without a staged job:
\* the handler marks the file, downloads it and calls processCsvAndNotify.
\* The rows read (the local `data`) are held in the job field of the locals.

\* faulty variant: the file is not marked at the guard
DirectFileSharedUnmarked(f, u) ==
    /\ CanDeliver
    /\ IF alreadyProcessed(f)
       THEN DeliverAndReturn /\ Return("direct", f) /\ UNCHANGED runs
       ELSE /\ Deliver([Task("direct", "info", f, u) EXCEPT !.run = runs + 1])
            /\ runs' = runs + 1
            /\ UNCHANGED returned
    /\ UNCHANGED <<upload, outcome, jobsMade, store, outbox>>
\* The event is delivered: processedFiles.has, trackFile, then files.info is
\* awaited.
DirectFileShared(f, u) ==
    /\ CanDeliver
    /\ IF alreadyProcessed(f)
       THEN DeliverAndReturn /\ Return("direct", f)
            /\ UNCHANGED <<runs, processedFiles, timers>>
       ELSE /\ trackFile(f)
            /\ Deliver([Task("direct", "info", f, u) EXCEPT !.run = runs + 1])
            /\ runs' = runs + 1
            /\ UNCHANGED returned
    /\ UNCHANGED <<upload, outcome, jobsMade, pendingJobs, disk, sentMessages, outbox>>

\* files.info returned or threw
DirectFilesInfoReturn(t) ==
    /\ Running(t, "direct", "info")
    /\ \E ok \in BOOLEAN :
         IF ~ok THEN Catch(t) /\ UNCHANGED returned
         ELSE IF upload[t.file].filetype # "csv"
         THEN Finish(t) /\ Return("filetype", t.file)
         ELSE Goto(t, "download") /\ UNCHANGED returned
    /\ UNCHANGED <<upload, outcome, ids, store, outbox>>

\* axios.get returned or threw; the write stream opens the temporary file
DirectAxiosGetReturn(t) ==
    /\ Running(t, "direct", "download")
    /\ \E ok \in BOOLEAN :
         IF ok
         THEN /\ disk' = disk \cup {t.file}
              /\ Goto(t, "write")
         ELSE /\ Catch(t)
              /\ UNCHANGED disk
    /\ UNCHANGED <<upload, outcome, ids, pendingJobs, processedFiles, sentMessages, timers, outbox, returned>>

\* the writer finished (processCsvAndNotify is called: readCsvFile opens the
\* file) or failed
DirectWriterReturn(t) ==
    /\ Running(t, "direct", "write")
    /\ \E ok \in BOOLEAN :
         IF ~ok THEN Catch(t)
         ELSE Goto(t, IF t.file \in disk THEN "read" ELSE "readfail")
    /\ UNCHANGED <<upload, outcome, ids, store, outbox, returned>>

\* processCsvAndNotify: readCsvFile settled; with the rows the loop starts,
\* otherwise the catch block posts the error
ProcessReadReturn(t) ==
    /\ BagIn(t, tasks) /\ t.kind = "direct"
    /\ t.pc \in {"read", "readfail"}
    /\ \E streamOk \in BOOLEAN :
         LET res == readCsvFile(upload[t.file])
             rec == [t EXCEPT !.job = Job(0, res.data, t.file, t.user)]
         IN  IF streamOk /\ t.pc = "read" /\ res.ok
             THEN Dispatch(t, rec, 1)
             ELSE Goto(t, "critical") /\ UNCHANGED sends
    /\ UNCHANGED <<upload, outcome, ids, store, sendFailed, updates, prompts, errorNotices, modals, notices, ignored, returned>>

\* processCsvAndNotify: chat.postMessage to the recipient returned or threw
ProcessSendReturn(t) ==
    /\ Running(t, "direct", "send")
    /\ LET rec == t
           row == rec.job.data[rec.i]
       IN  \E ok \in BOOLEAN :
             IF ok
             THEN /\ trackMessage(<<rec.run, rec.i>>,
                                  [user |-> Cell(row, SLACK_ID), name |-> Cell(row, NAME)])
                  /\ Dispatch(t, [rec EXCEPT !.successCount = @ + 1], rec.i + 1)
                  /\ UNCHANGED sendFailed
             ELSE /\ sendFailed' = sendFailed \cup {<<rec.run, rec.i>>}
                  /\ Dispatch(t, [rec EXCEPT !.failedUsers = Append(@, Cell(row, NAME)),
                                              !.failedRows = Append(@, rec.i)],
                              rec.i + 1)
                  /\ UNCHANGED <<sentMessages, timers>>
    /\ UNCHANGED <<upload, outcome, ids, pendingJobs, disk, processedFiles>>
    /\ UNCHANGED <<updates, prompts, errorNotices, modals, notices, ignored, returned>>

\* processCsvAndNotify: the report was posted (finally unlinks the file) or
\* the post threw (catch)
ProcessReportReturn(t) ==
    /\ Running(t, "direct", "report")
    /\ \E ok \in BOOLEAN :
         IF ok
         THEN /\ updates' = updates \cup {Update("report", t)}
              /\ disk' = disk \ {t.file}
              /\ Finish(t)
         ELSE /\ Goto(t, "critical")
              /\ UNCHANGED <<updates, disk>>
    /\ UNCHANGED <<upload, outcome, ids, pendingJobs, processedFiles, sentMessages, timers>>
    /\ UNCHANGED <<sends, sendFailed, prompts, errorNotices, modals, notices, ignored, returned>>

\* processCsvAndNotify: the error post of the catch block returned or threw;
\* finally unlinks the file; an error thrown there goes to the handler's catch
ProcessCatchReturn(t) ==
    /\ Running(t, "direct", "critical")
    /\ \E ok \in BOOLEAN :
         IF ok
         THEN /\ updates' = updates \cup {Update("critical", t)}
              /\ Finish(t)
         ELSE /\ Catch(t)
              /\ UNCHANGED updates
    /\ disk' = disk \ {t.file}
    /\ UNCHANGED <<upload, outcome, ids, pendingJobs, processedFiles, sentMessages, timers>>
    /\ UNCHANGED <<sends, sendFailed, prompts, errorNotices, modals, notices, ignored, returned>>

\* the handler's catch block: the error notice returned or threw
DirectErrorPostReturn(t) ==
    /\ Running(t, "direct", "errpost")
    /\ \E ok \in BOOLEAN :
         errorNotices' = IF ok THEN errorNotices \cup {t.file} ELSE errorNotices
    /\ Finish(t)
    /\ UNCHANGED <<upload, outcome, ids, store>>
    /\ UNCHANGED <<sends, sendFailed, updates, prompts, modals, notices, ignored, returned>>

InitDirect == InitWith(UploadsCore, MaxTasksDirect)
NextDirect ==
    \/ \E f \in Files, u \in Users : DirectFileShared(f, u)
    \/ \E t \in InFlight : DirectFilesInfoReturn(t)
    \/ \E t \in InFlight : DirectAxiosGetReturn(t)
    \/ \E t \in InFlight : DirectWriterReturn(t)
    \/ \E t \in InFlight : ProcessReadReturn(t)
    \/ \E t \in InFlight : ProcessSendReturn(t)
    \/ \E t \in InFlight : ProcessReportReturn(t)
    \/ \E t \in InFlight : ProcessCatchReturn(t)
    \/ \E t \in InFlight : DirectErrorPostReturn(t)
    \/ TimerFire
SpecDirect == InitDirect /\ [][NextDirect]_vars

\* ------------------------------------------------------------ properties
\* the rows of every job staged for file f (the file does not change)
JobData(f) == readCsvFile(upload[f]).data
\* the suspended handler t takes the step: it resumes, and moves on or ends
Steps(t) == CopiesIn(t, tasks') < CopiesIn(t, tasks)
\* the suspended handler t ends with the step
Ends(t) == Steps(t) /\ BagCardinality(tasks') < BagCardinality(tasks)
SendsOf(run, row) == {k \in 1..Len(sends) : sends[k].run = run /\ sends[k].row = row}
InSeq(x, q) == \E p \in 1..Len(q) : q[p] = x

\* C1: the dispatch loop runs at most once for a staged job: all the sends of
\* a job come from one run of the loop, and no row of it is sent twice.
AtMostOneDispatchPerJob ==
    \A j, k \in 1..Len(sends) :
        sends[j].job = sends[k].job =>
            /\ sends[j].run = sends[k].run
            /\ (sends[j].row = sends[k].row => j = k)

\* C2: whatever step a confirm or cancel handler takes for a user who is not
\* the originating user of the job of its file, the job store, the temporary
\* files, the processed set, the acknowledgment map, the job's message and
\* the recipient sends stay as they are.
ActsForOtherUser(t) ==
    /\ t.kind \in {"confirm", "cancel"}
    /\ IF t.pc = "ack"
       THEN t.file \in DOMAIN pendingJobs /\ pendingJobs[t.file].userId # t.user
       ELSE t.job.userId # t.user
OtherUserChangesNothing ==
    [][\A t \in InFlight :
          ActsForOtherUser(t) /\ Steps(t) =>
              UNCHANGED <<pendingJobs, disk, processedFiles, sentMessages, timers,
                          sends, sendFailed, updates>>]_vars
\* another user was shown the access-denied modal and the job is still staged
OtherUserDeniedJobStaged ==
    \E m \in modals, f \in DOMAIN pendingJobs :
        /\ m.kind = "denied" /\ m.job = pendingJobs[f].id /\ m.user # pendingJobs[f].userId
        /\ f \in disk

\* C3: a file_shared event delivered while a job for the file is staged writes
\* no Job entry and posts no prompt.
RedeliveryIsNoOp ==
    /\ \A t \in InFlight : t.kind = "file_shared" /\ t.atDelivery # 0 => t.job = NoJob
    /\ \A p \in prompts : p.atDelivery = 0

\* C4: a row without recipient identifier or without amount is never sent,
\* and every report, posted or about to be, lists it in its failure list
\* under its name.
MissingIdOrAmount(row) == row[SLACK_ID] = "" \/ row[SALARY] = ""
ListsMissingRows(file, failedUsers, failedRows) ==
    \A k \in 1..Len(JobData(file)) :
        MissingIdOrAmount(JobData(file)[k]) =>
            \E p \in 1..Len(failedRows) :
                /\ failedRows[p] = k
                /\ failedUsers[p] = IF JobData(file)[k][NAME] # ""
                                    THEN JobData(file)[k][NAME] ELSE UnknownName
MissingRowSkippedAndListed ==
    /\ \A k \in 1..Len(sends) : ~MissingIdOrAmount(JobData(sends[k].file)[sends[k].row])
    /\ \A u \in updates :
          u.kind = "report" => ListsMissingRows(u.file, u.failedUsers, u.failedRows)
    /\ \A t \in InFlight :
          t.kind = "confirm" /\ t.pc = "report" =>
              ListsMissingRows(t.file, t.failedUsers, t.failedRows)
\* a report was posted for a job with a row lacking its identifier or amount
ReportWithMissingRow ==
    \E u \in updates :
        /\ u.kind = "report"
        /\ \E k \in 1..Len(JobData(u.file)) : MissingIdOrAmount(JobData(u.file)[k])

\* C5: when the send for row k of a run failed, the row is in the failure
\* list, it was sent once only, and every later row the loop has reached
\* that passes validation has its own send; when the loop is over that is
\* every later row.
Sendable(row) ==
    /\ row[SLACK_ID] # "" /\ row[SALARY] # "" /\ row[NAME] # ""
    /\ ~isNaN(parseCount(row[FALTAS])) /\ ~isNaN(parseCount(row[FERIADOS]))
\* the rows the loop of handler t has reached
Reached(t) == IF t.pc = "send" THEN 1..t.i ELSE 1..Len(t.job.data)
SendFailureBlocksNothing ==
    \A t \in InFlight :
        t.kind = "confirm" /\ t.pc \in {"send", "report"} =>
            \A k \in Reached(t) :
                <<t.run, k>> \in sendFailed =>
                    /\ InSeq(k, t.failedRows)
                    /\ Cardinality(SendsOf(t.run, k)) = 1
                    /\ \A j \in Reached(t) :
                          j > k /\ Sendable(t.job.data[j]) =>
                              Cardinality(SendsOf(t.run, j)) = 1
\* a send failed and a later row of the same run was sent
LaterRowSentAfterFailure ==
    \E x \in sendFailed, k \in 1..Len(sends) : sends[k].run = x[1] /\ sends[k].row > x[2]

\* C6: only the recorded recipient resolves an acknowledgment: every notice
\* posted or being posted is for the user the message was sent to, and an
\* entry of the acknowledgment map changes only by being deleted, by its
\* timer or by the notice for its recorded recipient.
Recipient(ts) ==
    LET k == CHOOSE x \in 1..Len(sends) : sends[x].run = ts[1] /\ sends[x].row = ts[2]
    IN  JobData(sends[k].file)[ts[2]][SLACK_ID]
OnlyRecipientNotified ==
    /\ \A k \in DOMAIN notices : k.user = Recipient(k.ts)
    /\ \A t \in InFlight : t.kind = "reaction" => t.user = Recipient(t.ts)
EntryLeavesOnlyWhenResolved ==
    \A ts \in DOMAIN sentMessages :
        \/ ts \in DOMAIN sentMessages' /\ sentMessages'[ts] = sentMessages[ts]
        \/ timers # <<>> /\ Head(timers) = [kind |-> "message", key |-> ts] /\ timers' = Tail(timers)
        \/ \E t \in InFlight :
              /\ t.kind = "reaction" /\ t.ts = ts /\ t.user = sentMessages[ts].user
              /\ Ends(t) /\ Count(notices', [ts |-> ts, user |-> t.user])
                              = Count(notices, [ts |-> ts, user |-> t.user]) + 1
OnlyRecipientResolves == []OnlyRecipientNotified /\ [][EntryLeavesOnlyWhenResolved]_vars
\* a check mark from another user on a tracked message was ignored, and the
\* entry is still there
OtherUsersCheckMarkIgnored ==
    \E g \in ignored :
        /\ g.reaction = "white_check_mark"
        /\ g.ts \in DOMAIN sentMessages /\ sentMessages[g.ts].user # g.user
        /\ notices = EmptyMap

\* C7: the admin-channel notice for a tracked message is posted once only.
NoticePostedOnce == \A k \in DOMAIN notices : notices[k] <= 1

\* C8: no row of a job whose cancellation notice was shown is ever sent.
CancelledJobNeverSent ==
    \A u \in updates : u.kind = "cancelled" => \A k \in 1..Len(sends) : sends[k].job # u.job

\* C9: a cancel delivered while the job is being dispatched changes nothing:
\* no cancellation notice, the Job entry and its file stay.
CancelDuringDispatchNotHonored ==
    [][\A t \in InFlight :
          t.kind = "cancel" /\ t.atDelivery # 0 /\ t.job.id = t.atDelivery /\ Steps(t) =>
              UNCHANGED <<pendingJobs, disk, updates>>]_vars

\* C10: a confirm or cancel handler of the originating user that found the
\* job staged ends with the job's entry removed from the job store.
OwnerActionRemovesJob ==
    [][\A t \in InFlight :
          /\ t.kind \in {"confirm", "cancel"}
          /\ t.job # NoJob /\ t.user = t.job.userId
          /\ Ends(t)
          => t.file \notin DOMAIN pendingJobs']_vars

\* C11: a confirm or cancel handler that passed the job-exists and the
\* originating-user guards ends, on whatever path, with the job's entry
\* deleted and the job's temporary file removed.
CleanupOnEveryExit ==
    [][\A t \in InFlight :
          /\ t.kind \in {"confirm", "cancel"}
          /\ t.pc \in {"progress", "send", "report", "critical", "cancelling"}
          /\ Ends(t)
          => t.file \notin DOMAIN pendingJobs' /\ t.job.filePath \notin disk']_vars

\* C12: a job is stored, and a prompt posted, only with the rows the reader
\* returned for a CSV with all the required columns; a file_shared handler
\* whose metadata fetch, download, write or read fails goes to the error
\* notice without having written a Job entry or posted a prompt, and writes
\* and posts none afterwards.
FailsToCatch(t) ==
    /\ Steps(t)
    /\ CopiesIn([t EXCEPT !.pc = "errpost"], tasks') > CopiesIn([t EXCEPT !.pc = "errpost"], tasks)
JobOnlyFromParsedRows ==
    /\ \A f \in DOMAIN pendingJobs :
          /\ upload[f].filetype = "csv"
          /\ missingHeaders(upload[f].headers) = {}
          /\ pendingJobs[f].data = KeepNonBlank(upload[f].rows)
    /\ \A t \in InFlight :
          t.kind = "file_shared" /\ t.pc = "prompt" =>
              t.job # NoJob /\ missingHeaders(upload[t.file].headers) = {}
NoJobOnFailure ==
    \A t \in InFlight :
        /\ t.kind = "file_shared"
        /\ \/ t.pc \in {"info", "download", "write", "read", "readfail"} /\ FailsToCatch(t)
           \/ t.pc = "errpost" /\ t.job = NoJob /\ Steps(t)
        => UNCHANGED <<pendingJobs, prompts>>
PromptOnlyAfterJob ==
    prompts' # prompts =>
        \E t \in InFlight : t.kind = "file_shared" /\ t.pc = "prompt" /\ Ends(t)
NoJobWithoutParsedRows ==
    /\ []JobOnlyFromParsedRows
    /\ [][NoJobOnFailure /\ PromptOnlyAfterJob]_vars
\* the error notice was posted for a CSV that lacks a required column, and no
\* job was stored and no prompt posted
MissingColumnNoticeNoJob ==
    \E f \in errorNotices :
        /\ upload[f].filetype = "csv" /\ missingHeaders(upload[f].headers) # {}
        /\ f \notin DOMAIN pendingJobs /\ prompts = {} /\ jobsMade = 0

\* C13: a file_shared handler that fails ends with the temporary file of its
\* artifact removed.
TempFileGoneOnFailure ==
    [][\A t \in InFlight :
          t.kind = "file_shared" /\ t.pc = "errpost" /\ Ends(t) => t.file \notin disk']_vars

\* C14: a confirm handler of the originating user that went through the rows
\* of the job ends with the artifact identifier in the processed set, the
\* job's entry deleted and the temporary file deleted.
DispatchedJobMarkedProcessed ==
    [][\A t \in InFlight :
          /\ t.kind = "confirm" /\ t.run # 0 /\ t.i > Len(t.job.data)
          /\ Ends(t)
          => /\ t.file \in processedFiles'
             /\ t.file \notin DOMAIN pendingJobs'
             /\ t.job.filePath \notin disk']_vars

\* C15: a file_shared event for a file that is in the processed set when the
\* handler starts is ignored: no handler goes on to the metadata fetch for a
\* processed file, and the delivery that returns at the guard suspends
\* nothing and leaves the stores and everything posted or sent as they are.
Started(t) == CopiesIn(t, tasks') > CopiesIn(t, tasks)
ProcessedFileIgnored ==
    [][/\ \A t \in BagToSet(tasks') :
             t.kind = "file_shared" /\ t.pc = "info" /\ Started(t) =>
                 t.file \notin processedFiles
       /\ \A r \in returned' \ returned :
             r.kind = "file_shared" =>
                 /\ r.file \in processedFiles
                 /\ tasks' = tasks
                 /\ UNCHANGED <<ids, store, outbox>>]_vars
\* a file_shared event for a processed file returned at the guard
ProcessedFileRedelivered ==
    \E r \in returned : r.kind = "file_shared" /\ r.file \in processedFiles

\* C16: a confirm, cancel or preview handler that finds no job under its
\* identifier after ack ends there: nothing is sent, posted or updated, no
\* file is deleted, and the job store, the processed set and the
\* acknowledgment map stay as they are.
AbsentJobNoOp ==
    [][\A t \in InFlight :
          /\ t.kind \in {"confirm", "cancel", "preview"} /\ t.pc = "ack"
          /\ t.file \notin DOMAIN pendingJobs
          /\ Steps(t)
          => Ends(t) /\ UNCHANGED <<ids, store, outbox>>]_vars
\* a confirm, a cancel and a preview have each returned for lack of a job
EachActionReturnedWithoutJob ==
    \A k \in {"confirm", "cancel", "preview"} : \E r \in returned : r.kind = k

\* C17: one report per dispatch, with the true counts: a report is posted
\* only by the handler of its run, as that handler's last step; its success
\* count is the number of sends of the run that succeeded and its total the
\* number of rows of the job.
Succeeded(run) ==
    {k \in 1..Len(sends) :
        /\ sends[k].run = run
        /\ <<run, sends[k].row>> \notin sendFailed \cup SendsInFlight}
OneReportTrueCounts ==
    /\ \A u \in updates :
          u.kind = "report" =>
              /\ u.successCount = Cardinality(Succeeded(u.run))
              /\ u.total = Len(JobData(u.file))
              /\ \A t \in InFlight : t.run # u.run
              /\ \A v \in updates : v.kind = "report" /\ v.run = u.run => v = u
    /\ \A t \in InFlight :
          t.kind = "confirm" /\ t.pc = "report" =>
              t.successCount = Cardinality(Succeeded(t.run))
ReportEndsItsRun ==
    \A u \in updates' \ updates :
        u.kind = "report" =>
            \E t \in InFlight :
                t.kind = "confirm" /\ t.pc = "report" /\ t.run = u.run /\ Ends(t)
OneAggregateReport == []OneReportTrueCounts /\ [][ReportEndsItsRun]_vars
\* the report of a two-row job whose second row lacks its amount: 1 of 2, and
\* one name in the failure list
ReportOneOfTwo ==
    \E u \in updates :
        /\ u.kind = "report" /\ u.successCount = 1 /\ u.total = 2
        /\ Len(u.failedUsers) = 1
        /\ JobData(u.file)[2][SALARY] = ""

\* C18: the failure list is in row order: its entries stand for strictly
\* increasing rows, each entry being the label of its row, in every report
\* posted and in every list being built.
EntryOf(row) ==
    IF row[NAME] = "" THEN {UnknownName} ELSE {row[NAME], row[NAME] \o NotNumericSuffix}
InRowOrder(data, failedUsers, failedRows) ==
    /\ Len(failedUsers) = Len(failedRows)
    /\ \A p \in 1..Len(failedRows) :
          /\ failedRows[p] \in 1..Len(data)
          /\ failedUsers[p] \in EntryOf(data[failedRows[p]])
          /\ \A q \in 1..Len(failedRows) : p < q => failedRows[p] < failedRows[q]
FailureListInRowOrder ==
    /\ \A u \in updates :
          u.kind = "report" => InRowOrder(JobData(u.file), u.failedUsers, u.failedRows)
    /\ \A t \in InFlight :
          t.kind = "confirm" => InRowOrder(t.job.data, t.failedUsers, t.failedRows)
\* a report lists a skipped row and, after it, a row whose send failed
ReportSkippedThenFailed ==
    \E u \in updates :
        /\ u.kind = "report" /\ Len(u.failedRows) = 2
        /\ <<u.run, u.failedRows[1]>> \notin sendFailed
        /\ <<u.run, u.failedRows[2]>> \in sendFailed

\* C19: within one dispatch the sends are sequential and in row order: the
\* rows of a run's sends increase, every row visited has one send if it
\* passes validation and none otherwise, all sends of the run but the one
\* awaited have completed, and a send is started only by the handler of the
\* run, when the progress update or its previous send has returned.
Visited(t) == IF t.pc = "send" THEN 1..t.i ELSE 1..(t.i - 1)
RunSends(run) == {k \in 1..Len(sends) : sends[k].run = run}
OneRowAtATime ==
    \A t \in InFlight :
        t.kind = "confirm" /\ t.run # 0 =>
            /\ CopiesIn(t, tasks) = 1
            /\ \A x \in InFlight : x.run = t.run => x = t
            /\ \A j, k \in RunSends(t.run) : j < k => sends[j].row < sends[k].row
            /\ \A k \in 1..Len(t.job.data) :
                  Cardinality(SendsOf(t.run, k)) =
                      IF k \in Visited(t) /\ Sendable(t.job.data[k]) THEN 1 ELSE 0
            /\ Cardinality(RunSends(t.run)) =
                  t.successCount + Cardinality({x \in sendFailed : x[1] = t.run})
                  + (IF t.pc = "send" THEN 1 ELSE 0)
SendStartedByItsRun ==
    Len(sends') > Len(sends) =>
        /\ sends' = Append(sends, sends'[Len(sends')])
        /\ \E t \in InFlight :
              /\ t.kind = "confirm" /\ t.pc \in {"progress", "send"}
              /\ t.run = sends'[Len(sends')].run
              /\ Steps(t)
SequentialSends == []OneRowAtATime /\ [][SendStartedByItsRun]_vars
\* the send for row 2 of a run is awaited after the send for row 1 completed
SecondSendAfterFirst ==
    \E t \in InFlight :
        /\ t.kind = "confirm" /\ t.pc = "send" /\ t.i = 2
        /\ Cardinality(SendsOf(t.run, 1)) = 1

\* C20: an acknowledgment entry is created exactly when a send succeeds:
\* every entry is keyed by the identifier of a send that succeeded and holds
\* the recipient and name of its row; an entry is added only in the step in
\* which the handler's send returns, and that step adds it unless the send
\* failed.
EntriesAreSuccessfulSends ==
    \A ts \in DOMAIN sentMessages :
        /\ ts \in IssuedTs
        /\ \A k \in SendsOf(ts[1], ts[2]) :
              sentMessages[ts] = [user |-> JobData(sends[k].file)[ts[2]][SLACK_ID],
                                  name |-> JobData(sends[k].file)[ts[2]][NAME]]
EntryAddedBySend ==
    /\ \A ts \in DOMAIN sentMessages' \ DOMAIN sentMessages :
          \E t \in InFlight :
              /\ t.kind = "confirm" /\ t.pc = "send" /\ <<t.run, t.i>> = ts
              /\ Steps(t) /\ ts \notin sendFailed'
    /\ \A t \in InFlight :
          t.kind = "confirm" /\ t.pc = "send" /\ Steps(t) =>
              (<<t.run, t.i>> \in DOMAIN sentMessages') = (<<t.run, t.i>> \notin sendFailed')
EntryPerSuccessfulSend == []EntriesAreSuccessfulSends /\ [][EntryAddedBySend]_vars
\* one send succeeded and has its entry, another failed and has none
EntryForSentNoneForFailed ==
    \E ts \in DOMAIN sentMessages, x \in sendFailed : x \notin DOMAIN sentMessages

\* C21: an acknowledgment entry has a bounded lifetime: every entry has its
\* expiry timer pending and is eventually out of the map; once out it never
\* comes back, and a reaction on a message that has no entry starts no notice.
TsSpace == (1..MaxTasks) \X (1..MaxRows)
EntryHasTimer ==
    \A ts \in DOMAIN sentMessages : InSeq([kind |-> "message", key |-> ts], timers)
AbsentStaysAbsent ==
    /\ \A ts \in IssuedTs : ts \notin DOMAIN sentMessages => ts \notin DOMAIN sentMessages'
    /\ \A t \in BagToSet(tasks') :
          t.kind = "reaction" /\ Started(t) => t.ts \in DOMAIN sentMessages
EntryExpires ==
    /\ []EntryHasTimer
    /\ [][AbsentStaysAbsent]_vars
    /\ \A ts \in TsSpace : (ts \in DOMAIN sentMessages) ~> (ts \notin DOMAIN sentMessages)
\* the recipient's check mark came after the entry had expired unconsumed, and
\* no notice was posted or is being posted
CheckMarkAfterExpiry ==
    \E g \in ignored :
        /\ g.reaction = "white_check_mark" /\ g.user = Recipient(g.ts)
        /\ g.ts \notin DOMAIN sentMessages
        /\ notices = EmptyMap /\ tasks = EmptyBag

\* C22: a row whose absences or holidays value is not the text of an integer
\* is never sent and is in the failure list of every report; a row that is
\* complete and has empty or integer counts is not listed unless its send
\* failed.
IsInteger(cell) ==
    LET s == SkipSpaces(cell)
        body == IF s # <<>> /\ Head(s) \in {"-", "+"} THEN Tail(s) ELSE s
    IN  body # <<>> /\ \A p \in 1..Len(body) : body[p] \in Digits
ValidCounts(row) ==
    \A c \in {FALTAS, FERIADOS} : row[c] = <<>> \/ IsInteger(row[c])
InvalidNumericNeverSent ==
    /\ \A k \in 1..Len(sends) : ValidCounts(JobData(sends[k].file)[sends[k].row])
    /\ \A u \in updates :
          u.kind = "report" =>
              \A k \in 1..Len(JobData(u.file)) :
                  LET row == JobData(u.file)[k]
                  IN  /\ ~ValidCounts(row) => InSeq(k, u.failedRows)
                      /\ ValidCounts(row) /\ ~MissingIdOrAmount(row) /\ row[NAME] # ""
                         /\ InSeq(k, u.failedRows) => <<u.run, k>> \in sendFailed

HasContent(row) ==
    \/ \E c \in DOMAIN row \cap {SLACK_ID, NAME, SALARY} : row[c] \notin {"", " "}
    \/ \E c \in DOMAIN row \cap {FALTAS, FERIADOS} : \E p \in 1..Len(row[c]) : row[c][p] # " "
PhraseRule(n, phrase) ==
    /\ n = 0 => phrase.form = "none"
    /\ n = 1 => phrase.form = "singular" /\ phrase.n = 1
    /\ n > 1 => phrase.form = "plural" /\ phrase.n = n
RendererPluralizes ==
    outcome.fn = "generateMessage" =>
        LET name == outcome.arg[1]
            salary == outcome.arg[2]
            faltas == outcome.arg[3]
            feriados == outcome.arg[4]
            text == outcome.value
        IN  /\ PhraseRule(faltas, text.faltas)
            /\ PhraseRule(feriados, text.feriados)
            /\ \A n \in Counts :
                  /\ generateMessage(name, salary, faltas, n).faltas = text.faltas
                  /\ generateMessage(name, salary, n, feriados).feriados = text.feriados
            /\ {text.faltas.form, text.feriados.form} \subseteq {"none", "singular", "plural"}
            /\ text.name = name /\ text.salary = salary
\* no absence and one holiday: the phrase for none and the singular
NoAbsenceOneHoliday ==
    /\ outcome.fn = "generateMessage"
    /\ outcome.arg[3] = 0 /\ outcome.arg[4] = 1
    /\ outcome.value.faltas.form = "none"
    /\ outcome.value.feriados = [form |-> "singular", n |-> 1]

\* C26: whenever no handler for a file is in flight, there is a Job entry for
\* the file exactly when its temporary file exists.
JobIffTempFile ==
    \A f \in Files :
        (\A t \in InFlight : t.file # f) => (f \in DOMAIN pendingJobs <=> f \in disk)

\* C27: a confirm click on a staged job by a user who is not its originating
\* user opens the access-denied modal for that user with the trigger of the
\* click and opens or posts nothing else; the job stays in the store with its
\* temporary file.
DeniedModal(t) == [kind |-> "denied", job |-> t.job.id, user |-> t.user, trigger |-> "confirm"]
NonOwnerConfirmDenied ==
    [][\A t \in InFlight :
          t.kind = "confirm" /\ ActsForOtherUser(t) /\ Steps(t) =>
              /\ UNCHANGED <<pendingJobs, disk>>
              /\ t.pc = "ack" =>
                    LET next == [t EXCEPT !.job = pendingJobs[t.file], !.pc = "denied"]
                    IN  CopiesIn(next, tasks') > CopiesIn(next, tasks)
              /\ t.pc = "denied" =>
                    /\ Ends(t)
                    /\ modals' \in {modals, modals \cup {DeniedModal(t)}}
                    /\ UNCHANGED <<sends, updates, prompts, errorNotices, notices>>]_vars
\* the modal of a confirm click is open for a user who is not the originating
\* user of the job, the job is staged and no handler is running
ConfirmDeniedJobStaged ==
    \E m \in modals, f \in DOMAIN pendingJobs :
        /\ m.kind = "denied" /\ m.trigger = "confirm"
        /\ m.job = pendingJobs[f].id /\ m.user # pendingJobs[f].userId
        /\ f \in disk /\ tasks = EmptyBag

\* C28: in a run of the loop the "Enviando..." update is made before the
\* first send starts; the report is made by a run that has gone through all
\* the rows, each of them sent or listed as failed, and the run sends nothing
\* after it; a file is marked processed only in the step in which the report
\* of a run on it is made.
ProgressBeforeSends ==
    \A k \in 1..Len(sends) :
        \E u \in updates : u.kind = "progress" /\ u.run = sends[k].run
ReportAfterLastRow ==
    \A u \in updates :
        u.kind = "report" =>
            /\ \A t \in InFlight : t.run # u.run
            /\ \A k \in 1..u.total : InSeq(k, u.failedRows) \/ SendsOf(u.run, k) # {}
ReportMadeAtLoopEnd ==
    \A u \in updates' \ updates :
        u.kind = "report" =>
            \E t \in InFlight :
                /\ t.kind = "confirm" /\ t.pc = "report" /\ t.run = u.run
                /\ t.i > Len(t.job.data) /\ Ends(t)
NoSendAfterReport ==
    \A k \in 1..Len(sends') :
        k > Len(sends) => \A u \in updates' : u.kind = "report" => u.run # sends'[k].run
MarkedWithReport ==
    \A f \in processedFiles' \ processedFiles :
        \E u \in updates' \ updates : u.kind = "report" /\ u.file = f
ConfirmStepsInOrder ==
    /\ [](ProgressBeforeSends /\ ReportAfterLastRow)
    /\ [][ReportMadeAtLoopEnd /\ NoSendAfterReport /\ MarkedWithReport]_vars
\* a run made the update, sent both rows of its job, made the report and the
\* file is marked
TwoRowsReportedAndMarked ==
    \E u \in updates :
        /\ u.kind = "report" /\ u.total = MaxRows
        /\ \A k \in 1..MaxRows : SendsOf(u.run, k) # {}
        /\ \E v \in updates : v.kind = "progress" /\ v.run = u.run
        /\ u.file \in processedFiles

\* C29: a Job entry is deleted only by a step of a confirm or cancel handler
\* run for the originating user of that entry; a Job entry is written only by
\* a file_shared handler; the steps of reaction and preview handlers, of
\* confirm and cancel handlers of other users and of the timers leave the job
\* store as it is.
DeletedByOriginator ==
    \A f \in DOMAIN pendingJobs :
        f \notin DOMAIN pendingJobs' =>
            \E t \in InFlight :
                /\ t.kind \in {"confirm", "cancel"} /\ t.file = f /\ Ends(t)
                /\ t.user = pendingJobs[f].userId
WrittenByFileShared ==
    \A f \in DOMAIN pendingJobs' :
        f \notin DOMAIN pendingJobs \/ pendingJobs'[f] # pendingJobs[f] =>
            \E t \in InFlight : t.kind = "file_shared" /\ t.file = f /\ Steps(t)
OthersLeaveJobStore ==
    /\ (\E t \in InFlight : t.kind \in {"reaction", "preview"} /\ Steps(t))
          => UNCHANGED pendingJobs
    /\ (\E t \in InFlight : ActsForOtherUser(t) /\ Steps(t)) => UNCHANGED pendingJobs
    /\ Len(timers') < Len(timers) => UNCHANGED pendingJobs
    /\ tasks' = tasks \/ BagCardinality(tasks') > BagCardinality(tasks)
          => UNCHANGED pendingJobs
OnlyControllerRemovesJob ==
    [][DeletedByOriginator /\ WrittenByFileShared /\ OthersLeaveJobStore]_vars

\* C30: for a file whose type is not csv nothing is downloaded, no Job entry
\* is written and no prompt, error notice or recipient message is sent.
NotTabular(f) == upload[f].filetype # "csv"
NothingDownloaded(f) ==
    /\ f \notin disk
    /\ f \notin DOMAIN pendingJobs
    /\ \A k \in 1..Len(sends) : sends[k].file # f
    /\ \A t \in InFlight :
          t.kind = "file_shared" /\ t.file = f => t.pc \in {"info", "errpost"} /\ t.job = NoJob
NonCsvRejectedSilently ==
    \A f \in Files : NotTabular(f) => NothingDownloaded(f) /\ f \notin errorNotices
\* C30 as it holds: when files.info returns for a file whose type is not csv
\* the handler ends there and changes, posts and sends nothing; for such a
\* file nothing is ever downloaded or stored, no prompt is posted and no
\* recipient message is sent; the error notice is posted for it only by a
\* handler whose files.info call threw.
TypeRejectedAtInfo ==
    \A t \in InFlight :
        t.kind = "file_shared" /\ t.pc = "info" /\ NotTabular(t.file) /\ Steps(t) =>
            /\ UNCHANGED <<ids, store, outbox>>
            /\ FailsToCatch(t) \/ (Ends(t) /\ [kind |-> "filetype", file |-> t.file] \in returned')
NoticeOnlyFromCatch ==
    \A f \in errorNotices' \ errorNotices :
        NotTabular(f) =>
            \E t \in InFlight : t.kind = "file_shared" /\ t.pc = "errpost" /\ t.file = f /\ Ends(t)
NoPromptForNonCsv ==
    prompts' # prompts =>
        \E t \in InFlight : t.kind = "file_shared" /\ ~NotTabular(t.file) /\ Ends(t)
NonCsvRejectedAfterMetadata ==
    /\ [](\A f \in Files : NotTabular(f) => NothingDownloaded(f))
    /\ [][TypeRejectedAtInfo /\ NoticeOnlyFromCatch /\ NoPromptForNonCsv]_vars
\* the handler of a file that is not a csv returned at the type check, and
\* nothing was written, posted or sent
NonCsvReturnedSilently ==
    \E r \in returned :
        /\ r.kind = "filetype" /\ NotTabular(r.file)
        /\ tasks = EmptyBag /\ disk = {} /\ pendingJobs = EmptyMap
        /\ errorNotices = {} /\ prompts = {} /\ sends = <<>>

\* C31: a recipient send is started only by a step of a confirm handler whose
\* user is the originating user of the job it sends, for a row of that job;
\* the steps of file_shared, cancel, preview and reaction handlers and the
\* delivery of any event start no send.
SendByAuthorizedConfirm ==
    \A k \in 1..Len(sends') :
        k > Len(sends) =>
            \E t \in InFlight :
                /\ t.kind = "confirm" /\ Steps(t)
                /\ t.user = t.job.userId
                /\ t.job.id = sends'[k].job /\ t.run = sends'[k].run
                /\ sends'[k].row \in 1..Len(t.job.data)
OtherEventsSendNothing ==
    /\ (\E t \in InFlight :
            t.kind \in {"file_shared", "cancel", "preview", "reaction"} /\ Steps(t))
          => UNCHANGED <<sends, sendFailed>>
    /\ BagCardinality(tasks') > BagCardinality(tasks) => UNCHANGED <<sends, sendFailed>>
    /\ Len(sends') >= Len(sends) /\ SubSeq(sends', 1, Len(sends)) = sends
SendsOnlyUnderAuthorizedConfirm ==
    [][SendByAuthorizedConfirm /\ OtherEventsSendNothing]_vars
\* the originating user's confirm is sending a row after another user's
\* confirm was denied
OwnerSendingOtherDenied ==
    /\ \E m \in modals : m.kind = "denied" /\ m.trigger = "confirm"
    /\ \E t \in InFlight :
          /\ t.kind = "confirm" /\ t.pc = "send" /\ t.user = t.job.userId
          /\ sends # <<>> /\ sends[Len(sends)].job = t.job.id

\* C32: while a run of the loop awaits a send or the report update, its
\* success count plus the length of its failure list is the number of rows
\* it has been through, each of them either listed once or sent with
\* success; when the report is built that number is the number of rows of
\* the job, and so it is in every report.
TimesListed(t, k) == Cardinality({p \in 1..Len(t.failedRows) : t.failedRows[p] = k})
SentWithSuccess(t, k) == SendsOf(t.run, k) # {} /\ <<t.run, k>> \notin sendFailed
RowsClassifiedOnce ==
    /\ \A t \in InFlight :
          t.kind = "confirm" /\ t.pc \in {"send", "report"} =>
              /\ t.successCount + Len(t.failedUsers) = t.i - 1
              /\ Len(t.failedRows) = Len(t.failedUsers)
              /\ \A k \in 1..(t.i - 1) :
                    TimesListed(t, k) + (IF SentWithSuccess(t, k) THEN 1 ELSE 0) = 1
              /\ t.successCount = Cardinality({k \in 1..(t.i - 1) : SentWithSuccess(t, k)})
              /\ t.pc = "report" => t.i - 1 = Len(t.job.data)
    /\ \A u \in updates :
          u.kind = "report" => u.successCount + Len(u.failedUsers) = u.total
\* a report of two rows, one sent and one not
ReportOfTwoRowsOneListed ==
    \E u \in updates :
        /\ u.kind = "report" /\ u.total = MaxRows
        /\ u.successCount = 1 /\ Len(u.failedUsers) = 1

\* C33: in the direct pipeline a handler goes past the guard only for a file
\* that is not in the processed set and marks it in the same step, so that
\* every event for the file delivered before the timer of that mark runs
\* returns at the guard; the mark is taken away only by its timer, not by the
\* handler, whatever way it ends; a marked file has exactly one timer pending.
PassesGuard(t) == t.kind = "direct" /\ t.pc = "info" /\ Started(t)
FileTimers(f) == {p \in 1..Len(timers) : timers[p] = [kind |-> "file", key |-> f]}
CheckAndMarkTogether ==
    \A t \in BagToSet(tasks') :
        PassesGuard(t) =>
            /\ t.file \notin processedFiles
            /\ t.file \in processedFiles'
            /\ \A x \in BagToSet(tasks') : PassesGuard(x) => x = t
            /\ CopiesIn(t, tasks') = CopiesIn(t, tasks) + 1
MarkedFileRejected ==
    \A f \in Files :
        f \in processedFiles /\ f \in processedFiles' =>
            ~\E t \in BagToSet(tasks') : PassesGuard(t) /\ t.file = f
MarkOutlivesHandler ==
    \A f \in processedFiles \ processedFiles' :
        /\ timers # <<>> /\ Head(timers) = [kind |-> "file", key |-> f]
        /\ timers' = Tail(timers)
        /\ tasks' = tasks
OneTimerPerMark ==
    \A f \in Files : Cardinality(FileTimers(f)) = IF f \in processedFiles THEN 1 ELSE 0
OnePastGuardPerWindow ==
    /\ []OneTimerPerMark
    /\ [][CheckAndMarkTogether /\ MarkedFileRejected /\ MarkOutlivesHandler]_vars
\* the one handler that went past the guard has failed, the file is still
\* marked and a second event for it returned at the guard
SecondEventRejectedAfterFailure ==
    \E r \in returned :
        /\ r.kind = "direct" /\ r.file \in processedFiles
        /\ r.file \in errorNotices
        /\ runs = 1 /\ tasks = EmptyBag

\* C34: as long as the timer of a mark of a file is pending, the file is in
\* the processed set: the timer of an earlier mark does not take away the
\* entry of a later one.
MarkLastsFullWindow ==
    \A f \in Files : FileTimers(f) # {} => f \in processedFiles

\* C35: the step in which the notice of a valid acknowledgment fails ends the
\* handler and leaves the acknowledgment map, its timers and everything else
\* as they are; the entry is deleted only in a step that posts the notice;
\* and as long as the entry is in the map a check mark of its recipient is a
\* valid acknowledgment.
NoticePosted == notices' # notices
FailedNoticeKeepsEntry ==
    \A t \in InFlight :
        t.kind = "reaction" /\ Steps(t) =>
            /\ Ends(t)
            /\ ~NoticePosted => UNCHANGED <<ids, store, outbox>>
            /\ NoticePosted => sentMessages' = MapDel(sentMessages, t.ts)
EntryAcceptsItsRecipient ==
    \A ts \in DOMAIN sentMessages :
        validAcknowledgment("white_check_mark", ts, sentMessages[ts].user)
NoticeFailureConsumesNothing ==
    /\ []EntryAcceptsItsRecipient
    /\ [][FailedNoticeKeepsEntry]_vars
\* a notice failed, no notice was posted, and the entry of the one message
\* sent is still in the map
EntryKeptAfterFailedNotice ==
    /\ [kind |-> "notice", file |-> 0] \in returned
    /\ notices = EmptyMap /\ tasks = EmptyBag
    /\ Len(sends) = 1 /\ DOMAIN sentMessages # {}

\* C36: when the "Enviando..." update of a confirm by the originating user
\* fails, the handler goes to its catch block without starting a send; this
\* run never sends a row; the handler then ends with the Job entry and the
\* temporary file deleted, and neither step adds the file to the processed
\* set.
FailedAtProgress(t) == t.kind = "confirm" /\ t.pc = "critical" /\ t.i = 0
ProgressFailureStartsNothing ==
    \A t \in InFlight :
        t.kind = "confirm" /\ t.pc = "progress" /\ Steps(t) /\ updates' = updates =>
            /\ CopiesIn([t EXCEPT !.pc = "critical"], tasks') = 1
            /\ UNCHANGED <<sends, store>>
FailedRunCleansUp ==
    \A t \in InFlight :
        FailedAtProgress(t) /\ Steps(t) =>
            /\ Ends(t)
            /\ t.file \notin DOMAIN pendingJobs' /\ t.job.filePath \notin disk'
            /\ UNCHANGED <<processedFiles, sentMessages, timers, sends>>
FailedRunSendsNothing ==
    /\ \A t \in InFlight : FailedAtProgress(t) => RunSends(t.run) = {}
    /\ ProgressBeforeSends
ProgressFailureAborts ==
    /\ []FailedRunSendsNothing
    /\ [][ProgressFailureStartsNothing /\ FailedRunCleansUp]_vars
\* the only confirm failed at its first update: the critical notice is
\* posted, nothing was sent, the job and the file are gone, the file is not
\* marked
OnlyConfirmFailedAtProgress ==
    /\ runs = 1 /\ tasks = EmptyBag
    /\ \E u \in updates : u.kind = "critical" /\ u.run = 1
    /\ ~\E u \in updates : u.kind = "progress"
    /\ sends = <<>> /\ pendingJobs = EmptyMap /\ disk = {} /\ processedFiles = {}

\* C37: no step of a cancel handler changes the processed set, the
\* acknowledgment map or their timers; the step in which the originating
\* user's cancellation is shown deletes the Job entry; and a file_shared event
\* returns at the guard only for a file in the processed set, so that an event
\* for the cancelled file goes on to stage a job.
CancelMarksNothing ==
    \A t \in InFlight :
        t.kind = "cancel" /\ Steps(t) =>
            /\ UNCHANGED <<processedFiles, sentMessages, timers>>
            /\ \A u \in updates' \ updates :
                  /\ u.kind = "cancelled" /\ t.user = t.job.userId
                  /\ t.file \notin DOMAIN pendingJobs'
GuardRejectsOnlyMarked ==
    \A r \in returned' \ returned : r.kind = "file_shared" => r.file \in processedFiles
CancelLeavesFileUnprocessed ==
    [][CancelMarksNothing /\ GuardRejectsOnlyMarked]_vars
\* the first job of the file was cancelled by its originating user, the file
\* is not marked, and a second job has been staged and prompted for it since
StagedAgainAfterCancel ==
    \E u \in updates, f \in DOMAIN pendingJobs :
        /\ u.kind = "cancelled" /\ u.file = f /\ u.job = 1
        /\ pendingJobs[f].id = 2
        /\ \E p \in prompts : p.job = 2
        /\ processedFiles = {} /\ sentMessages = EmptyMap /\ tasks = EmptyBag

\* C38: a preview handler that finds the job of its file staged goes on to
\* open the preview of that job, whoever its user is; its last step ends the
\* handler and adds at most the preview dialog of that job for that user; no
\* step of a preview handler changes the job store, the temporary files, the
\* processed set, the acknowledgment map or the timers, or posts or sends
\* anything else.
PreviewModal(t) == [kind |-> "preview", job |-> t.job.id, user |-> t.user, trigger |-> "preview"]
PreviewOpensForAnyUser ==
    \A t \in InFlight :
        t.kind = "preview" /\ t.pc = "ack" /\ Steps(t) /\ t.file \in DOMAIN pendingJobs =>
            LET next == [t EXCEPT !.job = pendingJobs[t.file], !.pc = "open"]
            IN  CopiesIn(next, tasks') > CopiesIn(next, tasks)
PreviewChangesNothing ==
    \A t \in InFlight :
        t.kind = "preview" /\ Steps(t) =>
            /\ UNCHANGED <<ids, store>>
            /\ UNCHANGED <<sends, sendFailed, updates, prompts, errorNotices, notices>>
            /\ t.pc = "ack" => UNCHANGED modals
            /\ t.pc = "open" =>
                  /\ Ends(t)
                  /\ modals' \in {modals, modals \cup {PreviewModal(t)}}
PreviewIsReadOnly ==
    [][PreviewOpensForAnyUser /\ PreviewChangesNothing]_vars
\* the preview of a staged job is open for a user who is not its originating
\* user; the job and its file are still there
PreviewOpenForOtherUser ==
    \E m \in modals, f \in DOMAIN pendingJobs :
        /\ m.kind = "preview" /\ m.job = pendingJobs[f].id
        /\ m.user # pendingJobs[f].userId
        /\ f \in disk /\ tasks = EmptyBag

=============================================================================
